---- MODULE Spec2Model ----
(***************************************************************************)
(* Model of colour.algebra.extrapolation.Extrapolator                      *)
(* (src/colour/algebra/extrapolation.py).                                  *)
(*                                                                         *)
(* Floating point values are modelled as extended rationals: a record      *)
(* [tag, n, d] that is a finite number n/d in lowest terms (tag "num"), a  *)
(* signed infinity (tag "inf", n the sign) or NaN (tag "nan").  The Python *)
(* values None and a non numeric object share the record shape (tags       *)
(* "none" and "str") so that every stored attribute can be compared.       *)
(***************************************************************************)
EXTENDS Integers, Sequences, FiniteSets, TLC

VARIABLES alive, self, op, x, y, raised, xshape, yshape, gen, assigned, buffer, passed

vars == <<alive, self, op, x, y, raised, xshape, yshape, gen, assigned, buffer, passed>>

(***************************************************************************)
(* Bounds of the model.                                                    *)
(***************************************************************************)
MaxLen == 1

(***************************************************************************)
(* Extended rational arithmetic (numpy float64 semantics, exact values).   *)
(***************************************************************************)
Abs(i) == IF i < 0 THEN -i ELSE i

Sign(i) == IF i < 0 THEN -1 ELSE IF i > 0 THEN 1 ELSE 0

RECURSIVE GCD(_, _)
GCD(a, b) == IF b = 0 THEN a ELSE GCD(b, a % b)

Num(n, d) ==
    LET g == GCD(Abs(n), Abs(d))
    IN  [tag |-> "num", n |-> (Sign(d) * n) \div g, d |-> Abs(d) \div g]

N(i) == Num(i, 1)

NaN == [tag |-> "nan", n |-> 0, d |-> 0]

Inf(s) == [tag |-> "inf", n |-> s, d |-> 0]

None == [tag |-> "none", n |-> 0, d |-> 0]

NotANumber == [tag |-> "str", n |-> 0, d |-> 0]

InfSign(v) == IF v.tag = "inf" THEN v.n ELSE 0

Lt(a, b) ==
    /\ a.tag # "nan"
    /\ b.tag # "nan"
    /\ IF a.tag = "inf" \/ b.tag = "inf"
       THEN InfSign(a) < InfSign(b)
       ELSE a.n * b.d < b.n * a.d

Gt(a, b) == Lt(b, a)

Le(a, b) == a.tag # "nan" /\ b.tag # "nan" /\ ~Lt(b, a)

Ge(a, b) == Le(b, a)

Neg(a) == IF a.tag = "nan" THEN NaN ELSE [a EXCEPT !.n = -a.n]

Add(a, b) ==
    IF a.tag = "nan" \/ b.tag = "nan" THEN NaN
    ELSE IF a.tag = "inf" /\ b.tag = "inf"
         THEN IF a.n = b.n THEN a ELSE NaN
    ELSE IF a.tag = "inf" THEN a
    ELSE IF b.tag = "inf" THEN b
    ELSE Num(a.n * b.d + b.n * a.d, a.d * b.d)

Sub(a, b) == Add(a, Neg(b))

Mul(a, b) ==
    IF a.tag = "nan" \/ b.tag = "nan" THEN NaN
    ELSE IF a.tag = "inf" \/ b.tag = "inf"
         THEN IF a.n = 0 \/ b.n = 0 THEN NaN ELSE Inf(Sign(a.n) * Sign(b.n))
    ELSE Num(a.n * b.n, a.d * b.d)

\* a / b under numpy.errstate(divide="ignore", invalid="ignore")
Div(a, b) ==
    IF a.tag = "nan" \/ b.tag = "nan" THEN NaN
    ELSE IF a.tag = "inf"
         THEN IF b.tag = "inf" THEN NaN
              ELSE Inf(a.n * (IF b.n < 0 THEN -1 ELSE 1))
    ELSE IF b.tag = "inf" THEN N(0)
    ELSE IF b.n = 0
         THEN IF a.n = 0 THEN NaN ELSE Inf(Sign(a.n))
    ELSE Num(a.n * b.d, a.d * b.n)

\* colour.algebra.sdiv in its default mode "Ignore Zero Conversion"
sdiv(a, b) ==
    LET c == Div(a, b)
    IN  IF c.tag \in {"nan", "inf"} THEN N(0) ELSE c

(***************************************************************************)
(* Python strings are sequences of character codes, so that the case       *)
(* folding of method names is computed rather than tabulated.              *)
(***************************************************************************)
STR_Linear == <<76, 105, 110, 101, 97, 114>>

STR_linear == <<108, 105, 110, 101, 97, 114>>

STR_LINEAR == <<76, 73, 78, 69, 65, 82>>

STR_Constant == <<67, 111, 110, 115, 116, 97, 110, 116>>

STR_constant == <<99, 111, 110, 115, 116, 97, 110, 116>>

STR_CONSTANT == <<67, 79, 78, 83, 84, 65, 78, 84>>

STR_Cubic == <<67, 117, 98, 105, 99>>

STR_unset == <<>>

\* str.lower() on ASCII text
lower(s) == [i \in 1..Len(s) |-> IF s[i] >= 65 /\ s[i] <= 90 THEN s[i] + 32 ELSE s[i]]

\* A Python object passed as "method": a str with its text, or another object.
Str(s) == [str |-> TRUE, s |-> s]

NonStr == [str |-> FALSE, s |-> <<53>>]

NoneMethod == [str |-> FALSE, s |-> <<>>]

(***************************************************************************)
(* Helpers of colour.utilities and colour.algebra used by the class.       *)
(***************************************************************************)
is_string(value) == value.str

is_numeric(value) == value.tag \in {"num", "inf", "nan"}

\* validate_method(method, valid_methods): the lower-cased method when it is
\* one of the lower-cased valid methods, a ValueError otherwise.
validate_method(method, valid_methods) ==
    LET m == lower(method)
    IN  IF \E i \in 1..Len(valid_methods) : lower(valid_methods[i]) = m
        THEN [raised |-> "none", value |-> m]
        ELSE [raised |-> "ValueError", value |-> method]

(***************************************************************************)
(* Interpolator objects: kind is the class, hasx / hasy tell whether the   *)
(* object has the attributes "x" and "y".                                  *)
(***************************************************************************)
Interpolator(kind, xs, ys) ==
    [kind |-> kind, hasx |-> TRUE, hasy |-> TRUE, x |-> xs, y |-> ys]

NoneInterpolator ==
    [kind |-> "None", hasx |-> FALSE, hasy |-> FALSE, x |-> <<>>, y |-> <<>>]

ObjectWithoutX ==
    [kind |-> "Object", hasx |-> FALSE, hasy |-> TRUE, x |-> <<>>, y |-> <<N(1), N(2)>>]

ObjectWithoutY ==
    [kind |-> "Object", hasx |-> TRUE, hasy |-> FALSE, x |-> <<N(3), N(4)>>, y |-> <<>>]

\* NullInterpolator(np.array([-np.inf, np.inf]), np.array([-np.inf, np.inf]))
NullPlaceholder == Interpolator("Null", <<Inf(-1), Inf(1)>>, <<Inf(-1), Inf(1)>>)

\* Index of the last sample position that is <= v (v within the range).
LastLe(xi, v) == CHOOSE k \in 1..Len(xi) :
    /\ Le(xi[k], v)
    /\ \A j \in (k + 1)..Len(xi) : ~Le(xi[j], v)

\* LinearInterpolator.__call__ on one element: numpy.interp(v, xi, yi)
LinearInterpolatorCall(xi, yi, v) ==
    IF v.tag = "nan" THEN NaN
    ELSE IF Lt(v, xi[1]) THEN yi[1]
    ELSE IF Ge(v, xi[Len(xi)]) THEN yi[Len(xi)]
    ELSE LET k == LastLe(xi, v)
         IN  Add(yi[k], Mul(Sub(v, xi[k]),
                            Div(Sub(yi[k + 1], yi[k]), Sub(xi[k + 1], xi[k]))))

\* NullInterpolator.__call__ on one element: the sample value at a sample
\* position, the default (NaN) elsewhere.
NullInterpolatorCall(xi, yi, v) ==
    IF \E j \in 1..Len(xi) : xi[j] = v
    THEN yi[CHOOSE j \in 1..Len(xi) : xi[j] = v]
    ELSE NaN

InterpolatorCall(interpolator, v) ==
    IF interpolator.kind = "Linear"
    THEN LinearInterpolatorCall(interpolator.x, interpolator.y, v)
    ELSE NullInterpolatorCall(interpolator.x, interpolator.y, v)

\* optional(value, default) for the interpolator and the method arguments
optional_interpolator_missing(value, default) == value

optional_interpolator(value, default) ==
    IF value = NoneInterpolator THEN default ELSE value

optional_method(value, default) ==
    IF value = NoneMethod THEN Str(default) ELSE value

(***************************************************************************)
(* The property setters.  Each takes the object's attributes and the       *)
(* assigned value and gives the attributes after the assignment and the    *)
(* exception raised ("none" when the assignment returns).                  *)
(***************************************************************************)
Returns(s) == [self |-> s, raised |-> "none"]

Raises(s, e) == [self |-> s, raised |-> e]

interpolator_setter_assigns_first(s, value) ==
    IF ~value.hasx THEN Raises([s EXCEPT !.interpolator = value], "AssertionError")
    ELSE IF ~value.hasy THEN Raises([s EXCEPT !.interpolator = value], "AssertionError")
    ELSE Returns([s EXCEPT !.interpolator = value])

interpolator_setter(s, value) ==
    IF ~value.hasx THEN Raises(s, "AssertionError")
    ELSE IF ~value.hasy THEN Raises(s, "AssertionError")
    ELSE Returns([s EXCEPT !.interpolator = value])

method_setter_assigns_first(s, value) ==
    IF ~is_string(value) THEN Raises(s, "AssertionError")
    ELSE LET v == validate_method(value.s, <<STR_Linear, STR_Constant>>)
         IN  IF v.raised # "none" THEN Raises([s EXCEPT !.method = value.s], v.raised)
             ELSE Returns([s EXCEPT !.method = v.value])

method_setter_keeps_spelling(s, value) ==
    IF ~is_string(value) THEN Raises(s, "AssertionError")
    ELSE LET v == validate_method(value.s, <<STR_Linear, STR_Constant>>)
         IN  IF v.raised # "none" THEN Raises(s, v.raised)
             ELSE Returns([s EXCEPT !.method = value.s])

method_setter(s, value) ==
    IF ~is_string(value) THEN Raises(s, "AssertionError")
    ELSE LET v == validate_method(value.s, <<STR_Linear, STR_Constant>>)
         IN  IF v.raised # "none" THEN Raises(s, v.raised)
             ELSE Returns([s EXCEPT !.method = v.value])

left_setter_unchecked(s, value) ==
    IF value # None
    THEN Returns([s EXCEPT !.left = value])
    ELSE Returns(s)

left_setter(s, value) ==
    IF value # None
    THEN IF ~is_numeric(value) THEN Raises(s, "AssertionError")
         ELSE Returns([s EXCEPT !.left = value])
    ELSE Returns(s)

right_setter_sets_both(s, value) ==
    IF value # None
    THEN IF ~is_numeric(value) THEN Raises(s, "AssertionError")
         ELSE Returns([s EXCEPT !.right = value, !.left = value])
    ELSE Returns(s)

right_setter_assigns_first(s, value) ==
    IF value # None
    THEN IF ~is_numeric(value) THEN Raises([s EXCEPT !.right = value], "AssertionError")
         ELSE Returns([s EXCEPT !.right = value])
    ELSE Returns(s)

right_setter(s, value) ==
    IF value # None
    THEN IF ~is_numeric(value) THEN Raises(s, "AssertionError")
         ELSE Returns([s EXCEPT !.right = value])
    ELSE Returns(s)

\* Attributes not assigned yet while __init__ runs.
Unset == [tag |-> "unset", n |-> 0, d |-> 0]

\* Extrapolator.__init__(interpolator, method, left, right): the attributes
\* assigned so far and the exception that ended it, if any.
__init__(interpolator, method, left, right) ==
    LET s0 == [interpolator |-> NullPlaceholder, method |-> STR_unset,
               left |-> Unset, right |-> Unset]
        r1 == interpolator_setter(s0, optional_interpolator(interpolator, s0.interpolator))
        s1 == [r1.self EXCEPT !.method = STR_Linear]
        r2 == method_setter(s1, optional_method(method, s1.method))
        s2 == [r2.self EXCEPT !.right = None]
        r3 == right_setter(s2, right)
        s3 == [r3.self EXCEPT !.left = None]
        r4 == left_setter(s3, left)
    IN  IF r1.raised # "none" THEN r1
        ELSE IF r2.raised # "none" THEN r2
        ELSE IF r3.raised # "none" THEN r3
        ELSE r4

(***************************************************************************)
(* Extrapolator._evaluate(x): xs is the input array, empty the content of  *)
(* the array np.empty_like(x) allocates.                                   *)
(***************************************************************************)
below(s, v) == Lt(v, s.interpolator.x[1])

above_inclusive(s, v) == Ge(v, s.interpolator.x[Len(s.interpolator.x)])

above(s, v) == Gt(v, s.interpolator.x[Len(s.interpolator.x)])

in_range_otherwise(s, v) == ~below(s, v) /\ ~above(s, v)

in_range_strict(s, v) ==
    Gt(v, s.interpolator.x[1]) /\ Lt(v, s.interpolator.x[Len(s.interpolator.x)])

in_range(s, v) ==
    Ge(v, s.interpolator.x[1]) /\ Le(v, s.interpolator.x[Len(s.interpolator.x)])

linear_below_last_slope(xi, yi, v) ==
    LET n == Len(xi)
    IN  Add(yi[1], Mul(Sub(v, xi[1]), sdiv(Sub(yi[n], yi[n - 1]), Sub(xi[n], xi[n - 1]))))

linear_below_plain_division(xi, yi, v) ==
    Add(yi[1], Mul(Sub(v, xi[1]), Div(Sub(yi[2], yi[1]), Sub(xi[2], xi[1]))))

linear_below(xi, yi, v) ==
    Add(yi[1], Mul(Sub(v, xi[1]), sdiv(Sub(yi[2], yi[1]), Sub(xi[2], xi[1]))))

linear_above(xi, yi, v) ==
    LET n == Len(xi)
    IN  Add(yi[n], Mul(Sub(v, xi[n]), sdiv(Sub(yi[n], yi[n - 1]), Sub(xi[n], xi[n - 1]))))

constant_below(yi) == yi[1]

constant_above_first(yi) == yi[1]

constant_above(yi) == yi[Len(yi)]

method_step(s, xs, y0) ==
    LET xi == s.interpolator.x
        yi == s.interpolator.y
    IN  IF s.method = STR_linear
        THEN [i \in 1..Len(xs) |->
                 IF above(s, xs[i]) THEN linear_above(xi, yi, xs[i])
                 ELSE IF below(s, xs[i]) THEN linear_below(xi, yi, xs[i])
                 ELSE y0[i]]
        ELSE IF s.method = STR_constant
        THEN [i \in 1..Len(xs) |->
                 IF above(s, xs[i]) THEN constant_above(yi)
                 ELSE IF below(s, xs[i]) THEN constant_below(yi)
                 ELSE y0[i]]
        ELSE y0

override_step_swapped(s, xs, y1) ==
    LET y2 == IF s.left # None
              THEN [i \in 1..Len(xs) |-> IF above(s, xs[i]) THEN s.left ELSE y1[i]]
              ELSE y1
    IN  IF s.right # None
        THEN [i \in 1..Len(xs) |-> IF below(s, xs[i]) THEN s.right ELSE y2[i]]
        ELSE y2

override_step_whole_array(s, xs, y1) ==
    LET y2 == IF s.left # None /\ \E j \in 1..Len(xs) : below(s, xs[j])
              THEN [i \in 1..Len(xs) |-> s.left]
              ELSE y1
    IN  IF s.right # None
        THEN [i \in 1..Len(xs) |-> IF above(s, xs[i]) THEN s.right ELSE y2[i]]
        ELSE y2

override_step(s, xs, y1) ==
    LET y2 == IF s.left # None
              THEN [i \in 1..Len(xs) |-> IF below(s, xs[i]) THEN s.left ELSE y1[i]]
              ELSE y1
    IN  IF s.right # None
        THEN [i \in 1..Len(xs) |-> IF above(s, xs[i]) THEN s.right ELSE y2[i]]
        ELSE y2

in_range_step(s, xs, y3) ==
    [i \in 1..Len(xs) |->
        IF in_range(s, xs[i]) THEN InterpolatorCall(s.interpolator, xs[i]) ELSE y3[i]]

_evaluate(s, xs, empty) ==
    in_range_step(s, xs, override_step(s, xs, method_step(s, xs, empty)))

(***************************************************************************)
(* Inputs.                                                                 *)
(***************************************************************************)
\* LinearInterpolator([3, 4, 5], [1, 2, 3]) of the class docstring
DocInterpolator == Interpolator("Linear", <<N(3), N(4), N(5)>>, <<N(1), N(2), N(3)>>)

\* different slopes at the two ends
BentInterpolator == Interpolator("Linear", <<N(3), N(4), N(5)>>, <<N(1), N(5), N(2)>>)

\* duplicate boundary samples
DegenerateInterpolator ==
    Interpolator("Linear", <<N(3), N(3), N(5), N(5)>>, <<N(1), N(2), N(4), N(8)>>)

\* duplicate first samples with equal values (a 0 / 0 slope), distinct last ones
LeftDegenerateInterpolator ==
    Interpolator("Linear", <<N(3), N(3), N(5)>>, <<N(2), N(2), N(4)>>)

Interpolators ==
    {DocInterpolator, BentInterpolator, DegenerateInterpolator,
     LeftDegenerateInterpolator, NullPlaceholder}

InterpolatorArgs == Interpolators \cup {NoneInterpolator, ObjectWithoutX, ObjectWithoutY}

MethodArgs ==
    {Str(STR_Linear), Str(STR_linear), Str(STR_LINEAR), Str(STR_Constant),
     Str(STR_CONSTANT), Str(STR_Cubic), NonStr, NoneMethod}

ValueArgs == {None, N(0), N(7), NotANumber}

XPoints == {N(-1), N(3), N(4), N(5), N(8), NaN}

RECURSIVE SeqsUpTo(_, _)
SeqsUpTo(S, n) ==
    IF n = 0 THEN {<<>>}
    ELSE LET shorter == SeqsUpTo(S, n - 1)
         IN  shorter \cup {Append(q, e) : q \in {t \in shorter : Len(t) = n - 1}, e \in S}

\* the arrays evaluated in the class docstring
DocArrays ==
    {<<N(1)>>, <<N(6), N(7), N(8)>>, <<Num(1, 10), Num(1, 5), N(8), N(9)>>}

\* arrays mixing elements below, inside, on the boundaries of and above the
\* range, and NaN
MixedArrays ==
    {<<N(-1), N(3), N(4), N(5), N(8)>>, <<N(8), NaN, N(-1)>>}

XArrays == (SeqsUpTo(XPoints, MaxLen) \ {<<>>}) \cup DocArrays \cup MixedArrays

(***************************************************************************)
(* Shapes: what is passed to and returned by __call__ is a Python scalar   *)
(* or an array with dimensions dims; x and y hold the elements in row      *)
(* major order.                                                            *)
(***************************************************************************)
Scalar == [scalar |-> TRUE, dims |-> <<>>]

Array(dims) == [scalar |-> FALSE, dims |-> dims]

NoShape == [scalar |-> FALSE, dims |-> <<0>>]

\* as_float_array(x): a scalar becomes an array of no dimension
as_float_array(shape) == Array(shape.dims)

\* np.empty_like(x), filled with boolean mask assignments
empty_like(shape) == shape

\* as_float(a): an array of no dimension becomes a scalar
as_float_keeps_array(shape) == shape

as_float(shape) == IF shape.dims = <<>> THEN Scalar ELSE shape

XInputs ==
    {[shape |-> Array(<<Len(a)>>), data |-> a] : a \in XArrays}
    \cup {[shape |-> Scalar, data |-> <<v>>] : v \in XPoints}
    \cup {[shape |-> Array(<<>>), data |-> <<N(4)>>],
          [shape |-> Array(<<2, 2>>), data |-> <<N(-1), N(3), N(8), N(4)>>],
          [shape |-> Array(<<1, 3>>), data |-> <<N(8), NaN, N(-1)>>],
          [shape |-> Array(<<2, 2>>), data |-> <<Num(1, 10), Num(1, 5), N(8), N(9)>>]}

\* what a freshly allocated, uninitialised float slot may hold
Uninitialised == {NaN, N(42)}

\* no call of a generator is in progress
NoCall == [fn |-> "", status |-> "idle"]

NoArgs == [name |-> "", interpolator |-> NoneInterpolator, method |-> NoneMethod,
           left |-> None, right |-> None, x |-> <<>>]

(***************************************************************************)
(* State: self holds the attributes _interpolator, _method, _left, _right  *)
(* of the Extrapolator, alive tells whether the last construction gave an  *)
(* object, op is the last call with its arguments, x and y the input and   *)
(* the result of the last evaluation, raised the exception of the last     *)
(* call.  buffer is what np.empty_like gave the last evaluation before any *)
(* element was written, passed the array it called the interpolator with,  *)
(* and assigned the value most recently assigned without an exception to   *)
(* each of the four properties (the method in lower case).                 *)
(***************************************************************************)
\* Extrapolator(interpolator, method, left, right): a construction that
\* raises leaves no object behind (alive is FALSE).
Init ==
    \E i \in InterpolatorArgs, m \in MethodArgs, l \in ValueArgs, r \in ValueArgs :
        LET res == __init__(i, m, l, r)
        IN  /\ alive = (res.raised = "none")
            /\ self = res.self
            /\ raised = res.raised
            /\ op = [name |-> "__init__", interpolator |-> i, method |-> m,
                     left |-> l, right |-> r, x |-> <<>>]
            /\ assigned = [interpolator |-> optional_interpolator(i, NullPlaceholder),
                           method |-> lower(optional_method(m, STR_Linear).s),
                           left |-> l, right |-> r]
            /\ buffer = <<>>
            /\ passed = <<>>
            /\ x = <<>>
            /\ y = <<>>
            /\ xshape = NoShape
            /\ yshape = NoShape
            /\ gen = NoCall

\* extrapolator.interpolator = value
SetInterpolator ==
    /\ alive
    /\ \E value \in InterpolatorArgs :
        LET res == interpolator_setter(self, value)
        IN  /\ self' = res.self
            /\ raised' = res.raised
            /\ op' = [NoArgs EXCEPT !.name = "interpolator", !.interpolator = value]
            /\ assigned' = IF res.raised = "none"
                           THEN [assigned EXCEPT !.interpolator = value]
                           ELSE assigned
    /\ x' = <<>>
    /\ y' = <<>>
    /\ xshape' = NoShape
    /\ yshape' = NoShape
    /\ buffer' = <<>>
    /\ passed' = <<>>
    /\ UNCHANGED <<alive, gen>>

\* extrapolator.method = value
SetMethod ==
    /\ alive
    /\ \E value \in MethodArgs :
        LET res == method_setter(self, value)
        IN  /\ self' = res.self
            /\ raised' = res.raised
            /\ op' = [NoArgs EXCEPT !.name = "method", !.method = value]
            /\ assigned' = IF res.raised = "none"
                           THEN [assigned EXCEPT !.method = lower(value.s)]
                           ELSE assigned
    /\ x' = <<>>
    /\ y' = <<>>
    /\ xshape' = NoShape
    /\ yshape' = NoShape
    /\ buffer' = <<>>
    /\ passed' = <<>>
    /\ UNCHANGED <<alive, gen>>

\* extrapolator.left = value
SetLeft ==
    /\ alive
    /\ \E value \in ValueArgs :
        LET res == left_setter(self, value)
        IN  /\ self' = res.self
            /\ raised' = res.raised
            /\ op' = [NoArgs EXCEPT !.name = "left", !.left = value]
            /\ assigned' = IF res.raised = "none"
                           THEN [assigned EXCEPT !.left = value]
                           ELSE assigned
    /\ x' = <<>>
    /\ y' = <<>>
    /\ xshape' = NoShape
    /\ yshape' = NoShape
    /\ buffer' = <<>>
    /\ passed' = <<>>
    /\ UNCHANGED <<alive, gen>>

\* extrapolator.right = value
SetRight ==
    /\ alive
    /\ \E value \in ValueArgs :
        LET res == right_setter(self, value)
        IN  /\ self' = res.self
            /\ raised' = res.raised
            /\ op' = [NoArgs EXCEPT !.name = "right", !.right = value]
            /\ assigned' = IF res.raised = "none"
                           THEN [assigned EXCEPT !.right = value]
                           ELSE assigned
    /\ x' = <<>>
    /\ y' = <<>>
    /\ xshape' = NoShape
    /\ yshape' = NoShape
    /\ buffer' = <<>>
    /\ passed' = <<>>
    /\ UNCHANGED <<alive, gen>>

\* extrapolator(x)
__call__ ==
    /\ alive
    /\ \E xin \in XInputs, e \in Uninitialised :
        /\ x' = xin.data
        /\ xshape' = xin.shape
        /\ buffer' = [i \in 1..Len(xin.data) |-> e]
        /\ passed' = SelectSeq(xin.data, LAMBDA v : in_range(self, v))
        /\ y' = _evaluate(self, xin.data, [i \in 1..Len(xin.data) |-> e])
        /\ yshape' = as_float(empty_like(as_float_array(xin.shape)))
        /\ op' = [NoArgs EXCEPT !.name = "__call__", !.x = xin.data]
    /\ raised' = "none"
    /\ UNCHANGED <<alive, self, gen, assigned>>

Next ==
    \/ SetInterpolator
    \/ SetMethod
    \/ SetLeft
    \/ SetRight
    \/ __call__

Spec == Init /\ [][Next]_vars

(***************************************************************************)
(* Vocabulary of the properties.                                           *)
(***************************************************************************)
xi == self.interpolator.x

yi == self.interpolator.y

Last == Len(self.interpolator.x)

Evaluated == alive /\ op.name = "__call__"

IsLinear == lower(self.method) = lower(STR_Linear)

IsConstant == lower(self.method) = lower(STR_Constant)

\* v lies on the line through (x1, y1) with slope (y2 - y1) / (x2 - x1) at
\* abscissa u, stated without a division
OnLine(u, v, x1, y1, x2, y2) ==
    Mul(Sub(v, y1), Sub(x2, x1)) = Mul(Sub(u, x1), Sub(y2, y1))

(***************************************************************************)
(* C1: whatever the method and the overrides, every evaluated element x    *)
(* with xi[0] <= x <= xi[-1] gets interpolator(x); so do the two boundary  *)
(* points, which never get a left / right override.                        *)
(***************************************************************************)
C1_BoundaryContinuity ==
    Evaluated =>
        \A i \in 1..Len(x) :
            /\ (Le(xi[1], x[i]) /\ Le(x[i], xi[Last]))
                  => y[i] = InterpolatorCall(self.interpolator, x[i])
            /\ x[i] = xi[1] => y[i] = InterpolatorCall(self.interpolator, xi[1])
            /\ x[i] = xi[Last] => y[i] = InterpolatorCall(self.interpolator, xi[Last])

C1_Witness ==
    /\ Evaluated
    /\ self.left # None
    /\ self.right # None
    /\ \E i, j \in 1..Len(x) :
        /\ x[i] = xi[1]
        /\ x[j] = xi[Last]
        /\ y[i] = N(1)
        /\ y[i] # self.left
        /\ y[j] # self.right

(***************************************************************************)
(* C2: with method Linear and no override on the side concerned, an        *)
(* element below xi[0] lies on the line through the first two samples and  *)
(* an element above xi[-1] on the line through the last two samples; on    *)
(* xi = [3, 4, 5], yi = [1, 2, 3]: e(1) = -1 and e([6, 7, 8]) = [4, 5, 6]. *)
(***************************************************************************)
C2_LinearSlopeLaw ==
    (Evaluated /\ IsLinear) =>
        /\ \A i \in 1..Len(x) :
            /\ (self.left = None /\ Lt(x[i], xi[1]) /\ xi[2] # xi[1])
                  => /\ y[i].tag = "num"
                     /\ OnLine(x[i], y[i], xi[1], yi[1], xi[2], yi[2])
            /\ (self.right = None /\ Gt(x[i], xi[Last]) /\ xi[Last] # xi[Last - 1])
                  => /\ y[i].tag = "num"
                     /\ OnLine(x[i], y[i], xi[Last], yi[Last], xi[Last - 1], yi[Last - 1])
        /\ (self.interpolator = DocInterpolator /\ self.left = None /\ x = <<N(1)>>)
              => y = <<N(-1)>>
        /\ (self.interpolator = DocInterpolator /\ self.right = None
              /\ x = <<N(6), N(7), N(8)>>) => y = <<N(4), N(5), N(6)>>

C2_Witness ==
    /\ Evaluated
    /\ IsLinear
    /\ self.left = None
    /\ self.right = None
    /\ self.interpolator = BentInterpolator
    /\ x = <<N(-1), N(3), N(4), N(5), N(8)>>
    /\ y[1] = N(-15)
    /\ y[5] = N(-7)

(***************************************************************************)
(* C3: with method Constant and no overrides, an element below xi[0] gets  *)
(* yi[0] and an element above xi[-1] gets yi[-1]; on xi = [3, 4, 5],       *)
(* yi = [1, 2, 3]: e([0.1, 0.2, 8, 9]) = [1, 1, 3, 3].                     *)
(***************************************************************************)
C3_ConstantLaw ==
    (Evaluated /\ IsConstant /\ self.left = None /\ self.right = None) =>
        /\ \A i \in 1..Len(x) :
            /\ Lt(x[i], xi[1]) => y[i] = yi[1]
            /\ Gt(x[i], xi[Last]) => y[i] = yi[Last]
        /\ (self.interpolator = DocInterpolator
              /\ x = <<Num(1, 10), Num(1, 5), N(8), N(9)>>)
              => y = <<N(1), N(1), N(3), N(3)>>

C3_Witness ==
    /\ Evaluated
    /\ IsConstant
    /\ self.left = None
    /\ self.right = None
    /\ self.interpolator = DocInterpolator
    /\ x = <<Num(1, 10), Num(1, 5), N(8), N(9)>>
    /\ y = <<N(1), N(1), N(3), N(3)>>

(***************************************************************************)
(* C4: for either method a set left is the value of every element below    *)
(* xi[0] and a set right the value of every element above xi[-1]; the side *)
(* without an override keeps the method's value; Constant with left = 0 on *)
(* xi = [3, 4, 5], yi = [1, 2, 3]: e([0.1, 0.2, 8, 9]) = [0, 0, 3, 3].     *)
(***************************************************************************)
C4_OverridePrecedence ==
    Evaluated =>
        /\ \A i \in 1..Len(x) :
            /\ (self.left # None /\ Lt(x[i], xi[1])) => y[i] = self.left
            /\ (self.right # None /\ Gt(x[i], xi[Last])) => y[i] = self.right
            /\ (self.left # None /\ self.right = None /\ Gt(x[i], xi[Last])) =>
                  /\ IsConstant => y[i] = yi[Last]
                  /\ (IsLinear /\ xi[Last] # xi[Last - 1]) =>
                        OnLine(x[i], y[i], xi[Last], yi[Last], xi[Last - 1], yi[Last - 1])
            /\ (self.right # None /\ self.left = None /\ Lt(x[i], xi[1])) =>
                  /\ IsConstant => y[i] = yi[1]
                  /\ (IsLinear /\ xi[2] # xi[1]) =>
                        OnLine(x[i], y[i], xi[1], yi[1], xi[2], yi[2])
        /\ (self.interpolator = DocInterpolator /\ IsConstant
              /\ self.left = N(0) /\ self.right = None
              /\ x = <<Num(1, 10), Num(1, 5), N(8), N(9)>>)
              => y = <<N(0), N(0), N(3), N(3)>>

C4_Witness ==
    /\ Evaluated
    /\ IsConstant
    /\ self.interpolator = DocInterpolator
    /\ self.left = N(0)
    /\ self.right = None
    /\ x = <<Num(1, 10), Num(1, 5), N(8), N(9)>>
    /\ y = <<N(0), N(0), N(3), N(3)>>

(***************************************************************************)
(* C5: assigning None to left (resp. right) returns and leaves the         *)
(* property None, whatever it held before.                                 *)
(***************************************************************************)
C5_NoneClearsOverride ==
    /\ (alive /\ op.name = "left" /\ op.left = None)
          => (raised = "none" /\ self.left = None)
    /\ (alive /\ op.name = "right" /\ op.right = None)
          => (raised = "none" /\ self.right = None)

(***************************************************************************)
(* C6: a method name outside {Linear, Constant}, whatever its case, is     *)
(* rejected at once: a construction with it raises and leaves no object,   *)
(* an assignment of it raises and leaves the four attributes as they were. *)
(***************************************************************************)
InvalidMethodName(m) ==
    m.str /\ lower(m.s) \notin {lower(STR_Linear), lower(STR_Constant)}

C6_InvalidMethodRejected ==
    /\ []((op.name = "__init__" /\ InvalidMethodName(op.method))
             => (~alive /\ raised # "none"))
    /\ [][(op'.name = "method" /\ InvalidMethodName(op'.method))
             => (raised' = "ValueError" /\ alive' /\ self' = self)]_vars

C6_Witness ==
    /\ alive
    /\ op.name = "method"
    /\ op.method = Str(STR_Cubic)
    /\ raised = "ValueError"
    /\ self.method = STR_constant
    /\ self.left = N(7)

(***************************************************************************)
(* C7: every Extrapolator that exists, after its construction and after    *)
(* any successful or failed assignment, has a method that is one of the    *)
(* two names _evaluate compares against, a left and a right that are None  *)
(* or numeric, and an interpolator that has x and y.                       *)
(***************************************************************************)
C7_AlwaysValid ==
    alive =>
        /\ self.method \in {STR_linear, STR_constant}
        /\ self.left = None \/ self.left.tag \in {"num", "inf", "nan"}
        /\ self.right = None \/ self.right.tag \in {"num", "inf", "nan"}
        /\ self.interpolator.hasx
        /\ self.interpolator.hasy

C7_Witness ==
    /\ alive
    /\ op.name = "left"
    /\ op.left = NotANumber
    /\ raised = "AssertionError"
    /\ self.left = N(0)
    /\ self.method = STR_linear

(***************************************************************************)
(* C8: every casing of "Linear" and of "Constant" is accepted at           *)
(* construction and at assignment, and the Extrapolator then evaluates as  *)
(* with the canonical spelling: the next evaluation follows the law of     *)
(* that method.                                                            *)
(***************************************************************************)
Names(m, canonical) == m.str /\ lower(m.s) = lower(canonical)

OtherArgsValid ==
    /\ op.interpolator = NoneInterpolator \/ (op.interpolator.hasx /\ op.interpolator.hasy)
    /\ op.left # NotANumber
    /\ op.right # NotANumber

C8_CaseInsensitiveMethod ==
    /\ []((op.name = "__init__" /\ OtherArgsValid
             /\ (Names(op.method, STR_Linear) \/ Names(op.method, STR_Constant)))
             => (alive /\ raised = "none"))
    /\ []((alive /\ op.name = "method"
             /\ (Names(op.method, STR_Linear) \/ Names(op.method, STR_Constant)))
             => raised = "none")
    /\ [][(alive /\ raised = "none" /\ op.name \in {"__init__", "method"}
             /\ op'.name = "__call__" /\ self.left = None /\ self.right = None)
             => \A i \in 1..Len(x') :
                   /\ (Names(op.method, STR_Constant) /\ Lt(x'[i], xi[1]))
                         => y'[i] = yi[1]
                   /\ (Names(op.method, STR_Constant) /\ Gt(x'[i], xi[Last]))
                         => y'[i] = yi[Last]
                   /\ (Names(op.method, STR_Linear) /\ Lt(x'[i], xi[1]) /\ xi[2] # xi[1])
                         => OnLine(x'[i], y'[i], xi[1], yi[1], xi[2], yi[2])
                   /\ (Names(op.method, STR_Linear) /\ Gt(x'[i], xi[Last])
                         /\ xi[Last] # xi[Last - 1])
                         => OnLine(x'[i], y'[i], xi[Last], yi[Last],
                                   xi[Last - 1], yi[Last - 1])]_vars

C8_Witness ==
    /\ alive
    /\ op.name = "method"
    /\ op.method = Str(STR_CONSTANT)
    /\ raised = "none"
    /\ self.method = STR_constant

(***************************************************************************)
(* C9: a value that is neither None nor numeric is rejected when it is     *)
(* assigned to left or right: a construction with it raises and leaves no  *)
(* object, an assignment raises and leaves the four attributes as they     *)
(* were.                                                                   *)
(***************************************************************************)
NonNumeric(v) == v # None /\ v.tag \notin {"num", "inf", "nan"}

C9_NonNumericOverrideRejected ==
    /\ []((op.name = "__init__" /\ (NonNumeric(op.left) \/ NonNumeric(op.right)))
             => (~alive /\ raised # "none"))
    /\ [][((op'.name = "left" /\ NonNumeric(op'.left))
             \/ (op'.name = "right" /\ NonNumeric(op'.right)))
             => (raised' = "AssertionError" /\ alive' /\ self' = self)]_vars

C9_Witness ==
    /\ alive
    /\ op.name = "right"
    /\ op.right = NotANumber
    /\ raised = "AssertionError"
    /\ self.right = N(7)
    /\ self.left = None

(***************************************************************************)
(* C10: an interpolator without an x or without a y attribute is rejected  *)
(* when it is assigned, before any evaluation: a construction with it      *)
(* raises and leaves no object, an assignment raises and the Extrapolator  *)
(* keeps the interpolator it had.                                          *)
(***************************************************************************)
LacksXorY(i) == i # NoneInterpolator /\ (~i.hasx \/ ~i.hasy)

C10_InterpolatorContract ==
    /\ []((op.name = "__init__" /\ LacksXorY(op.interpolator))
             => (~alive /\ raised = "AssertionError" /\ y = <<>>))
    /\ [][(op'.name = "interpolator" /\ (~op'.interpolator.hasx \/ ~op'.interpolator.hasy))
             => (raised' = "AssertionError" /\ y' = <<>> /\ alive'
                 /\ self'.interpolator = self.interpolator)]_vars

C10_Witness ==
    /\ alive
    /\ op.name = "interpolator"
    /\ op.interpolator = ObjectWithoutY
    /\ raised = "AssertionError"
    /\ self.interpolator = BentInterpolator

(***************************************************************************)
(* C11: for an input without NaN the result has the shape of the input, a  *)
(* scalar for a scalar, and each element of the result is what the         *)
(* Extrapolator gives for that element evaluated alone.                    *)
(***************************************************************************)
NoNaN(xs) == \A i \in 1..Len(xs) : xs[i].tag # "nan"

C11_VectorizationInvariance ==
    (Evaluated /\ NoNaN(x)) =>
        /\ yshape.dims = xshape.dims
        /\ xshape.scalar => yshape.scalar
        /\ Len(y) = Len(x)
        /\ \A i \in 1..Len(x) : \A e \in Uninitialised :
              y[i] = _evaluate(self, <<x[i]>>, <<e>>)[1]

C11_Witness ==
    /\ Evaluated
    /\ xshape = Array(<<2, 2>>)
    /\ yshape = Array(<<2, 2>>)
    /\ x = <<N(-1), N(3), N(8), N(4)>>
    /\ self.interpolator = BentInterpolator
    /\ IsLinear
    /\ self.left = N(7)
    /\ self.right = None
    /\ y = <<N(7), N(1), N(-7), N(5)>>

(***************************************************************************)
(* C12: with method Linear and duplicate boundary samples the evaluation   *)
(* does not raise; the slope on the degenerate side is 0, so an element    *)
(* below gets yi[0] and an element above yi[-1], while the other side      *)
(* keeps its slope and the elements in range their interpolated value.     *)
(***************************************************************************)
C12_DegenerateSlope ==
    (Evaluated /\ IsLinear /\ (xi[2] = xi[1] \/ xi[Last] = xi[Last - 1])) =>
        /\ raised = "none"
        /\ \A i \in 1..Len(x) :
            /\ (self.left = None /\ Lt(x[i], xi[1]) /\ xi[2] = xi[1])
                  => y[i] = yi[1]
            /\ (self.right = None /\ Gt(x[i], xi[Last]) /\ xi[Last] = xi[Last - 1])
                  => y[i] = yi[Last]
            /\ (self.left = None /\ Lt(x[i], xi[1]) /\ xi[2] # xi[1])
                  => OnLine(x[i], y[i], xi[1], yi[1], xi[2], yi[2])
            /\ (self.right = None /\ Gt(x[i], xi[Last]) /\ xi[Last] # xi[Last - 1])
                  => OnLine(x[i], y[i], xi[Last], yi[Last], xi[Last - 1], yi[Last - 1])
            /\ (Le(xi[1], x[i]) /\ Le(x[i], xi[Last]))
                  => y[i] = InterpolatorCall(self.interpolator, x[i])

C12_Witness ==
    /\ Evaluated
    /\ IsLinear
    /\ self.interpolator = LeftDegenerateInterpolator
    /\ self.left = None
    /\ self.right = None
    /\ x = <<N(-1), N(3), N(4), N(5), N(8)>>
    /\ y = <<N(2), N(2), N(3), N(4), N(7)>>

(***************************************************************************)
(* C13: Extrapolator() with every argument at its default (interpolator,   *)
(* left and right None, method "Linear") succeeds and has method Linear,    *)
(* left and right None and the placeholder interpolator whose x and y are  *)
(* (-inf, +inf).                                                           *)
(***************************************************************************)
NoArguments ==
    /\ op.name = "__init__"
    /\ op.interpolator = NoneInterpolator
    /\ op.method = Str(STR_Linear)
    /\ op.left = None
    /\ op.right = None

C13_Defaults ==
    NoArguments =>
        /\ alive
        /\ raised = "none"
        /\ IsLinear
        /\ self.left = None
        /\ self.right = None
        /\ self.interpolator.hasx /\ self.interpolator.hasy
        /\ self.interpolator.x = <<Inf(-1), Inf(1)>>
        /\ self.interpolator.y = <<Inf(-1), Inf(1)>>

C13_Witness ==
    /\ NoArguments
    /\ alive
    /\ self.method = STR_linear
    /\ self.interpolator = NullPlaceholder

(***************************************************************************)
(*                  colour/colorimetry/generation.py                       *)
(*                                                                         *)
(* Spectral values are kept exact: a value is NaN or a finite sum of terms *)
(* c * exp(-a) * 2^(-b) with rational a, b, c and one term for each pair   *)
(* (a, b), so that equal values have equal representations.  Rounding of   *)
(* floats is not modelled.                                                 *)
(***************************************************************************)
Value(terms) == [nan |-> FALSE, terms |-> terms]

NaNValue == [nan |-> TRUE, terms |-> {}]

Term(a, b, c) == [a |-> a, b |-> b, c |-> c]

\* the float k
Float(k) == Value(IF k = N(0) THEN {} ELSE {Term(N(0), N(0), k)})

\* np.exp(-q)
exp_neg(q) == Value({Term(q, N(0), N(1))})

\* 2 ** (-q)
exp2_neg(q) == Value({Term(N(0), q, N(1))})

Keys(u) == {<<t.a, t.b>> : t \in u.terms}

\* the coefficient of exp(-k[1]) * 2^(-k[2]) in u
Coefficient(u, k) ==
    IF k \in Keys(u) THEN (CHOOSE t \in u.terms : <<t.a, t.b>> = k).c ELSE N(0)

\* u + v
VAdd(u, v) ==
    IF u.nan \/ v.nan THEN NaNValue
    ELSE Value({t \in {Term(k[1], k[2], Add(Coefficient(u, k), Coefficient(v, k))) :
                          k \in Keys(u) \cup Keys(v)} : t.c # N(0)})

\* u * r for a float r
VScale(u, r) ==
    IF u.nan THEN NaNValue
    ELSE Value({t \in {[t EXCEPT !.c = Mul(t.c, r)] : t \in u.terms} : t.c # N(0)})

\* u / r for a float r
VDiv(u, r) == VScale(u, Div(N(1), r))

RECURSIVE PowNum(_, _)
PowNum(c, n) == IF n = 0 THEN N(1) ELSE Mul(c, PowNum(c, n - 1))

\* u ** n for a value of at most one term
VPow(u, n) ==
    IF u.nan THEN NaNValue
    ELSE Value({Term(Mul(t.a, N(n)), Mul(t.b, N(n)), PowNum(t.c, n)) : t \in u.terms})

(***************************************************************************)
(* SpectralShape, SpectralDistribution and MultiSpectralDistributions of   *)
(* colour.colorimetry.                                                     *)
(***************************************************************************)
SpectralShape(start, end, interval) ==
    [start |-> N(start), end |-> N(end), interval |-> interval]

SPECTRAL_SHAPE_DEFAULT == SpectralShape(360, 780, N(1))

\* the largest integer not above the non-negative rational q
Floor(q) == q.n \div q.d

\* shape.wavelengths: start, start + interval, ..., end
wavelengths(shape) ==
    LET n == Floor(Div(Sub(shape.end, shape.start), shape.interval)) + 1
    IN  [i \in 1..n |-> Add(shape.start, Mul(N(i - 1), shape.interval))]

\* a name built by an f-string: the format and the values it interpolates
Name(fmt, args) == [fmt |-> fmt, args |-> args]

\* the name of a distribution created without one
DefaultName == Name("{id}", <<>>)

\* dict.get(key, default)
Get(dict, key, default) == IF key \in DOMAIN dict THEN dict[key] ELSE default

\* settings.update(kwargs)
update_ignored(settings, kwargs) == settings

update(settings, kwargs) == kwargs @@ settings

is_uniform(domain) ==
    \A i \in 2..(Len(domain) - 1) :
        Sub(domain[i + 1], domain[i]) = Sub(domain[2], domain[1])

\* the interpolator class of a distribution created without one
DefaultInterpolator(domain) ==
    IF is_uniform(domain) THEN "SpragueInterpolator" ELSE "CubicSplineInterpolator"

SpectralDistribution(values, domain, settings) ==
    [domain       |-> domain,
     values       |-> values,
     labels       |-> <<>>,
     name         |-> Get(settings, "name", DefaultName),
     interpolator |-> Get(settings, "interpolator", DefaultInterpolator(domain))]

MultiSpectralDistributions(values, domain, labels, settings) ==
    [domain       |-> domain,
     values       |-> values,
     labels       |-> labels,
     name         |-> Get(settings, "name", DefaultName),
     interpolator |-> Get(settings, "interpolator", DefaultInterpolator(domain))]

\* colour.utilities.full and ones for one and two dimensions
full_of_zeros(n, k) == [i \in 1..n |-> Float(N(0))]

full(n, k) == [i \in 1..n |-> Float(k)]

full2_transposed(n, m, k) == [i \in 1..m |-> [j \in 1..n |-> Float(k)]]

full2(n, m, k) == [i \in 1..n |-> [j \in 1..m |-> Float(k)]]

ones(n) == [i \in 1..n |-> N(1)]

(***************************************************************************)
(* The constant generators.                                                *)
(***************************************************************************)
sd_constant(k, shape, kwargs) ==
    LET settings == update([name |-> Name("{k} Constant", <<<<k>>>>),
                            interpolator |-> "LinearInterpolator"], kwargs)
        values   == full(Len(wavelengths(shape)), k)
    IN  SpectralDistribution(values, wavelengths(shape), settings)

sd_zeros(shape, kwargs) == sd_constant(N(0), shape, kwargs)

sd_ones(shape, kwargs) == sd_constant(N(1), shape, kwargs)

msds_constant(k, labels, shape, kwargs) ==
    LET settings == update([name |-> Name("{k} Constant", <<<<k>>>>),
                            interpolator |-> "LinearInterpolator"], kwargs)
        values   == full2(Len(wavelengths(shape)), Len(labels), k)
    IN  MultiSpectralDistributions(values, wavelengths(shape), labels, settings)

msds_zeros(labels, shape, kwargs) == msds_constant(N(0), labels, shape, kwargs)

msds_ones(labels, shape, kwargs) == msds_constant(N(1), labels, shape, kwargs)

(***************************************************************************)
(* The gaussian and single LED generators.                                 *)
(***************************************************************************)
Square(q) == Mul(q, q)

\* fwhm / (2 * np.sqrt(2 * np.log(2))), an irrational float kept by the fwhm
\* it is computed from
fwhm_to_sigma(fwhm) == [tag |-> "fwhm / (2 sqrt(2 ln 2))", n |-> fwhm.n, d |-> fwhm.d]

\* np.exp(-d2 / (2 * sigma**2)); for sigma = fwhm / (2 sqrt(2 ln 2)) the
\* quotient is 4 ln(2) d2 / fwhm**2 and exp(-t ln 2) is 2**(-t)
normal_value_without_two(d2, sigma) ==
    IF sigma.tag = "num" THEN exp_neg(Div(d2, Square(sigma)))
    ELSE exp2_neg(Div(Mul(N(2), d2), Square(Num(sigma.n, sigma.d))))

normal_value(d2, sigma) ==
    IF sigma.tag = "num" THEN exp_neg(Div(d2, Mul(N(2), Square(sigma))))
    ELSE exp2_neg(Div(Mul(N(4), d2), Square(Num(sigma.n, sigma.d))))

sd_gaussian_normal_linear(mu, sigma, shape, kwargs) ==
    sd_constant(N(1), shape, kwargs)

sd_gaussian_normal(mu, sigma, shape, kwargs) ==
    LET settings == update([name |-> Name("{mu}nm - {sigma} Sigma - Gaussian",
                                          <<<<mu>>, <<sigma>>>>)], kwargs)
        w        == wavelengths(shape)
        values   == [i \in 1..Len(w) |-> normal_value(Square(Sub(w[i], mu)), sigma)]
    IN  SpectralDistribution(values, w, settings)

sd_gaussian_fwhm_unconverted(peak_wavelength, fwhm, shape, kwargs) ==
    LET settings == update([name |-> Name("{peak_wavelength}nm - {fwhm} FWHM - Gaussian",
                                          <<<<peak_wavelength>>, <<fwhm>>>>)], kwargs)
        w        == wavelengths(shape)
        values   == [i \in 1..Len(w) |->
                        normal_value(Square(Sub(w[i], peak_wavelength)), fwhm)]
    IN  SpectralDistribution(values, w, settings)

sd_gaussian_fwhm(peak_wavelength, fwhm, shape, kwargs) ==
    LET settings == update([name |-> Name("{peak_wavelength}nm - {fwhm} FWHM - Gaussian",
                                          <<<<peak_wavelength>>, <<fwhm>>>>)], kwargs)
        mu       == peak_wavelength
        sigma    == fwhm_to_sigma(fwhm)
        w        == wavelengths(shape)
        values   == [i \in 1..Len(w) |-> normal_value(Square(Sub(w[i], mu)), sigma)]
    IN  SpectralDistribution(values, w, settings)

sd_single_led_Ohno2005_pure_gaussian(peak_wavelength, half_spectral_width, shape, kwargs) ==
    LET settings == update([name |-> Name("{peak_wavelength}nm - {half_spectral_width} Half Spectral Width LED - Ohno (2005)",
                                          <<<<peak_wavelength>>, <<half_spectral_width>>>>)],
                           kwargs)
        w        == wavelengths(shape)
        values   == [i \in 1..Len(w) |->
                        exp_neg(Square(Div(Sub(w[i], peak_wavelength),
                                           half_spectral_width)))]
    IN  SpectralDistribution(values, w, settings)

sd_single_led_Ohno2005(peak_wavelength, half_spectral_width, shape, kwargs) ==
    LET settings == update([name |-> Name("{peak_wavelength}nm - {half_spectral_width} Half Spectral Width LED - Ohno (2005)",
                                          <<<<peak_wavelength>>, <<half_spectral_width>>>>)],
                           kwargs)
        w        == wavelengths(shape)
        values   == [i \in 1..Len(w) |->
                        exp_neg(Square(Div(Sub(w[i], peak_wavelength),
                                           half_spectral_width)))]
        blend    == [i \in 1..Len(w) |->
                        VDiv(VAdd(values[i], VScale(VPow(values[i], 5), N(2))), N(3))]
    IN  SpectralDistribution(blend, w, settings)

(***************************************************************************)
(* Arithmetic of colour.continuous.Signal, the base of the distributions.  *)
(***************************************************************************)
\* signal * r: a copy whose range is multiplied by the float r
Signal_mul(signal, r) ==
    [signal EXCEPT !.values = [i \in 1..Len(signal.values) |-> VScale(signal.values[i], r)]]

Samples(signal) ==
    [i \in 1..Len(signal.domain) |-> [w |-> signal.domain[i], v |-> signal.values[i]]]

Undefined(samples) == [i \in 1..Len(samples) |-> [samples[i] EXCEPT !.v = NaNValue]]

\* The samples of self += a for two lists of samples in ascending order of
\* wavelength: the sum at a wavelength of both domains, NaN at a wavelength of
\* only one of them, in ascending order of wavelength.
RECURSIVE iadd_samples(_, _)
iadd_samples(A, B) ==
    IF A = <<>> THEN Undefined(B)
    ELSE IF B = <<>> THEN Undefined(A)
    ELSE LET k    == (Len(A) + 1) \div 2
             m    == A[k]
             same == SelectSeq(B, LAMBDA b : b.w = m.w)
             mid  == IF same = <<>> THEN [m EXCEPT !.v = NaNValue]
                     ELSE [m EXCEPT !.v = VAdd(m.v, same[1].v)]
         IN  iadd_samples(SubSeq(A, 1, k - 1), SelectSeq(B, LAMBDA b : Lt(b.w, m.w)))
             \o <<mid>>
             \o iadd_samples(SubSeq(A, k + 1, Len(A)), SelectSeq(B, LAMBDA b : Gt(b.w, m.w)))

\* self += a for a signal a
Signal_iadd(self_, a) ==
    LET samples == iadd_samples(Samples(self_), Samples(a))
    IN  [self_ EXCEPT !.domain = [i \in 1..Len(samples) |-> samples[i].w],
                      !.values = [i \in 1..Len(samples) |-> samples[i].v]]

(***************************************************************************)
(* The multi LED generators.  An array-like argument is None, a scalar or  *)
(* a one-dimensional array; a holds its elements.                          *)
(***************************************************************************)
NoneArray == [kind |-> "None", a |-> <<>>]

ScalarArg(v) == [kind |-> "scalar", a |-> <<v>>]

ArrayArg(a) == [kind |-> "array", a |-> a]

\* np.resize(a, (n,)): the elements of a repeated as often as needed and cut
\* after n elements; zeros when a or the result is empty
np_resize_padded(a, n) ==
    [i \in 1..n |-> IF i <= Len(a.a) THEN a.a[i] ELSE N(0)]

np_resize_tail(a, n) ==
    IF Len(a.a) = 0 \/ n = 0 THEN [i \in 1..n |-> N(0)]
    ELSE IF Len(a.a) > n THEN SubSeq(a.a, Len(a.a) - n + 1, Len(a.a))
    ELSE [i \in 1..n |-> a.a[((i - 1) % Len(a.a)) + 1]]

np_resize(a, n) ==
    IF Len(a.a) = 0 \/ n = 0 THEN [i \in 1..n |-> N(0)]
    ELSE [i \in 1..n |-> a.a[((i - 1) % Len(a.a)) + 1]]

STR_Ohno2005 == <<79, 104, 110, 111, 32, 50, 48, 48, 53>>

STR_ohno2005 == <<111, 104, 110, 111, 32, 50, 48, 48, 53>>

STR_Ohno == <<79, 104, 110, 111>>

SD_MULTI_LEDS_METHODS == <<STR_Ohno2005>>

\* the loop of lines 761-769 from its i-th turn on; the single LED
\* distributions are created without a shape, which is not among kwargs
RECURSIVE accumulate(_, _, _, _, _, _)
accumulate(sd, i, peak_wavelengths, half_spectral_widths, peak_power_ratios, kwargs) ==
    IF i > Len(peak_wavelengths) THEN sd
    ELSE accumulate(
             Signal_iadd(sd,
                 Signal_mul(sd_single_led_Ohno2005(peak_wavelengths[i],
                                                   half_spectral_widths[i],
                                                   SPECTRAL_SHAPE_DEFAULT, kwargs),
                            peak_power_ratios[i])),
             i + 1, peak_wavelengths, half_spectral_widths, peak_power_ratios, kwargs)

sd_multi_leds_Ohno2005(peak_wavelengths, half_spectral_widths, peak_power_ratios, shape, kwargs) ==
    LET n      == Len(peak_wavelengths)
        widths == np_resize(half_spectral_widths, n)
        ratios == IF peak_power_ratios = NoneArray THEN ones(n)
                  ELSE np_resize(peak_power_ratios, n)
        sd     == accumulate(sd_zeros(shape, <<>>), 1, peak_wavelengths, widths,
                             ratios, kwargs)
    IN  [sd EXCEPT !.name =
            Name("{peak_wavelengths}nm - {half_spectral_widths} FWHM - {peak_power_ratios} Peak Power Ratios - LED - Ohno (2005)",
                 <<peak_wavelengths, widths, ratios>>)]

\* the outcome of a call: the exception raised ("none" when it returns) and
\* the value returned
Returned(value) == [raised |-> "none", value |-> value]

Raised(exception) == [raised |-> exception, value |-> NoCall]

sd_multi_leds(peak_wavelengths, shape, method, half_spectral_widths, peak_power_ratios, kwargs) ==
    LET m == validate_method(method, SD_MULTI_LEDS_METHODS)
    IN  IF m.raised # "none" THEN Raised(m.raised)
        ELSE Returned(sd_multi_leds_Ohno2005(peak_wavelengths, half_spectral_widths,
                                             peak_power_ratios, shape, kwargs))

STR_Normal == <<78, 111, 114, 109, 97, 108>>

STR_normal == <<110, 111, 114, 109, 97, 108>>

STR_FWHM == <<70, 87, 72, 77>>

STR_fwhm == <<102, 119, 104, 109>>

SD_GAUSSIAN_METHODS == <<STR_Normal, STR_FWHM>>

SD_SINGLE_LED_METHODS == <<STR_Ohno2005>>

sd_gaussian_always_normal(mu_peak_wavelength, sigma_fwhm, shape, method, kwargs) ==
    Returned(sd_gaussian_normal(mu_peak_wavelength, sigma_fwhm, shape, kwargs))

sd_gaussian(mu_peak_wavelength, sigma_fwhm, shape, method, kwargs) ==
    LET m == validate_method(method, SD_GAUSSIAN_METHODS)
    IN  IF m.raised # "none" THEN Raised(m.raised)
        ELSE IF m.value = lower(STR_Normal)
             THEN Returned(sd_gaussian_normal(mu_peak_wavelength, sigma_fwhm, shape, kwargs))
             ELSE Returned(sd_gaussian_fwhm(mu_peak_wavelength, sigma_fwhm, shape, kwargs))

\* half_spectral_width is passed on among kwargs, together with the shape
sd_single_led(peak_wavelength, shape, method, half_spectral_width, kwargs) ==
    LET m == validate_method(method, SD_SINGLE_LED_METHODS)
    IN  IF m.raised # "none" THEN Raised(m.raised)
        ELSE Returned(sd_single_led_Ohno2005(peak_wavelength, half_spectral_width,
                                             shape, kwargs))

(***************************************************************************)
(* Calls of the generators.  gen holds the function called, its arguments  *)
(* and, once the call is over, the exception raised and the distribution   *)
(* returned.                                                               *)
(***************************************************************************)
Shapes ==
    {SPECTRAL_SHAPE_DEFAULT, SpectralShape(400, 700, N(100)),
     SpectralShape(350, 370, N(10)), SpectralShape(500, 502, Num(1, 2))}

NoKwargs == [key \in {} |-> NoCall]

CustomName == Name("Custom", <<>>)

Kwargs ==
    {NoKwargs,
     [interpolator |-> "SpragueInterpolator"],
     [name |-> CustomName],
     [name |-> CustomName, interpolator |-> "CubicSplineInterpolator"]}

Levels == {N(0), N(1), N(100), Num(1, 2)}

Labels == {<<"a", "b", "c">>, <<"x", "y">>}

DocPeaks == <<N(457), N(530), N(615)>>

DocWidths == <<N(20), N(30), N(20)>>

DocRatios == <<Num(731, 1000), N(1), Num(166, 100)>>

PeakArrays == {SubSeq(DocPeaks, 1, n) : n \in 0..3}

WidthArgs ==
    {ScalarArg(N(20)), ArrayArg(<<N(20), N(30)>>), ArrayArg(DocWidths),
     ArrayArg(<<N(20), N(30), N(20), N(40)>>)}

RatioArgs ==
    {NoneArray, ScalarArg(N(2)), ArrayArg(<<N(1), N(3)>>), ArrayArg(DocRatios),
     ArrayArg(<<N(1), N(3), N(2), N(5)>>)}

MultiMethods == {STR_Ohno2005, STR_ohno2005, STR_Ohno}

GaussianMethods == {STR_Normal, STR_normal, STR_FWHM, STR_fwhm, STR_Ohno, STR_Linear}

Calls ==
    {[fn |-> "sd_constant", k |-> k, shape |-> s, kwargs |-> kw] :
        k \in Levels, s \in Shapes, kw \in Kwargs}
    \cup {[fn |-> f, shape |-> s, kwargs |-> kw] :
        f \in {"sd_zeros", "sd_ones"}, s \in Shapes, kw \in Kwargs}
    \cup {[fn |-> "msds_constant", k |-> k, labels |-> l, shape |-> s, kwargs |-> kw] :
        k \in {N(0), N(100)}, l \in Labels, s \in Shapes, kw \in Kwargs}
    \cup {[fn |-> f, labels |-> l, shape |-> s, kwargs |-> kw] :
        f \in {"msds_zeros", "msds_ones"}, l \in Labels, s \in Shapes, kw \in Kwargs}
    \cup {[fn |-> f, peak |-> p, width |-> N(25), shape |-> s, kwargs |-> kw] :
        f \in {"sd_gaussian_normal", "sd_gaussian_fwhm", "sd_single_led_Ohno2005"},
        p \in {N(555), N(500)}, s \in Shapes, kw \in Kwargs}
    \cup {[fn |-> "sd_multi_leds_Ohno2005", peaks |-> p, widths |-> w, ratios |-> r,
           shape |-> s, kwargs |-> kw] :
        p \in PeakArrays, w \in WidthArgs, r \in RatioArgs,
        s \in {SPECTRAL_SHAPE_DEFAULT, SpectralShape(400, 700, N(100))},
        kw \in {NoKwargs}}
    \cup {[fn |-> "sd_multi_leds_Ohno2005", peaks |-> DocPeaks,
           widths |-> ArrayArg(DocWidths), ratios |-> ArrayArg(DocRatios),
           shape |-> s, kwargs |-> kw] :
        s \in Shapes, kw \in {NoKwargs, [interpolator |-> "SpragueInterpolator"]}}
    \cup {[fn |-> "sd_multi_leds", peaks |-> DocPeaks, widths |-> ArrayArg(DocWidths),
           ratios |-> r, shape |-> s, method |-> m, kwargs |-> NoKwargs] :
        r \in {NoneArray, ArrayArg(DocRatios)}, s \in Shapes, m \in MultiMethods}
    \cup {[fn |-> "sd_gaussian", peak |-> N(555), width |-> N(25), shape |-> s,
           method |-> m, kwargs |-> kw] :
        s \in Shapes, m \in GaussianMethods,
        kw \in {NoKwargs, [interpolator |-> "LinearInterpolator"]}}
    \cup {[fn |-> "sd_single_led", peak |-> N(555), width |-> N(25), shape |-> s,
           method |-> m, kwargs |-> kw] :
        s \in Shapes, m \in MultiMethods, kw \in {NoKwargs, [name |-> CustomName]}}

InitGen ==
    /\ alive = FALSE
    /\ self = __init__(NoneInterpolator, Str(STR_Linear), None, None).self
    /\ op = NoArgs
    /\ x = <<>>
    /\ y = <<>>
    /\ raised = "none"
    /\ xshape = NoShape
    /\ yshape = NoShape
    /\ assigned = __init__(NoneInterpolator, Str(STR_Linear), None, None).self
    /\ buffer = <<>>
    /\ passed = <<>>
    /\ \E call \in Calls :
          gen = [fn |-> call.fn, status |-> "called", args |-> call,
                 raised |-> "none", result |-> NoCall]

Called(fn) == gen.status = "called" /\ gen.fn = fn

Return(outcome) ==
    /\ gen' = [gen EXCEPT !.status = IF outcome.raised = "none" THEN "returned"
                                     ELSE "raised",
                          !.raised = outcome.raised,
                          !.result = outcome.value]
    /\ UNCHANGED <<alive, self, op, x, y, raised, xshape, yshape, assigned, buffer, passed>>

CallSdConstant ==
    /\ Called("sd_constant")
    /\ Return(Returned(sd_constant(gen.args.k, gen.args.shape, gen.args.kwargs)))

CallSdZeros ==
    /\ Called("sd_zeros")
    /\ Return(Returned(sd_zeros(gen.args.shape, gen.args.kwargs)))

CallSdOnes ==
    /\ Called("sd_ones")
    /\ Return(Returned(sd_ones(gen.args.shape, gen.args.kwargs)))

CallMsdsConstant ==
    /\ Called("msds_constant")
    /\ Return(Returned(msds_constant(gen.args.k, gen.args.labels, gen.args.shape,
                                     gen.args.kwargs)))

CallMsdsZeros ==
    /\ Called("msds_zeros")
    /\ Return(Returned(msds_zeros(gen.args.labels, gen.args.shape, gen.args.kwargs)))

CallMsdsOnes ==
    /\ Called("msds_ones")
    /\ Return(Returned(msds_ones(gen.args.labels, gen.args.shape, gen.args.kwargs)))

CallSdGaussianNormal ==
    /\ Called("sd_gaussian_normal")
    /\ Return(Returned(sd_gaussian_normal(gen.args.peak, gen.args.width,
                                          gen.args.shape, gen.args.kwargs)))

CallSdGaussianFwhm ==
    /\ Called("sd_gaussian_fwhm")
    /\ Return(Returned(sd_gaussian_fwhm(gen.args.peak, gen.args.width,
                                        gen.args.shape, gen.args.kwargs)))

CallSdSingleLedOhno2005 ==
    /\ Called("sd_single_led_Ohno2005")
    /\ Return(Returned(sd_single_led_Ohno2005(gen.args.peak, gen.args.width,
                                              gen.args.shape, gen.args.kwargs)))

CallSdMultiLedsOhno2005 ==
    /\ Called("sd_multi_leds_Ohno2005")
    /\ Return(Returned(sd_multi_leds_Ohno2005(gen.args.peaks, gen.args.widths,
                                              gen.args.ratios, gen.args.shape,
                                              gen.args.kwargs)))

CallSdMultiLeds ==
    /\ Called("sd_multi_leds")
    /\ Return(sd_multi_leds(gen.args.peaks, gen.args.shape, gen.args.method,
                            gen.args.widths, gen.args.ratios, gen.args.kwargs))

CallSdGaussian ==
    /\ Called("sd_gaussian")
    /\ Return(sd_gaussian(gen.args.peak, gen.args.width, gen.args.shape,
                          gen.args.method, gen.args.kwargs))

CallSdSingleLed ==
    /\ Called("sd_single_led")
    /\ Return(sd_single_led(gen.args.peak, gen.args.shape, gen.args.method,
                            gen.args.width, gen.args.kwargs))

NextGen ==
    \/ CallSdConstant
    \/ CallSdZeros
    \/ CallSdOnes
    \/ CallMsdsConstant
    \/ CallMsdsZeros
    \/ CallMsdsOnes
    \/ CallSdGaussianNormal
    \/ CallSdGaussianFwhm
    \/ CallSdSingleLedOhno2005
    \/ CallSdMultiLedsOhno2005
    \/ CallSdMultiLeds
    \/ CallSdGaussian
    \/ CallSdSingleLed

SpecGen == InitGen /\ [][NextGen]_vars

(***************************************************************************)
(* Vocabulary of the claims about the generators.                          *)
(***************************************************************************)
Done(fn) == gen.status = "returned" /\ gen.fn = fn

Ascending(domain) ==
    \A i \in 1..(Len(domain) - 1) : Lt(domain[i], domain[i + 1])

\* domain is start, start + interval, ..., up to end
IsGrid(domain, shape) ==
    /\ Len(domain) >= 1
    /\ domain[1] = shape.start
    /\ \A i \in 1..(Len(domain) - 1) : Sub(domain[i + 1], domain[i]) = shape.interval
    /\ Le(domain[Len(domain)], shape.end)
    /\ Gt(Add(domain[Len(domain)], shape.interval), shape.end)
    /\ Ascending(domain)

\* the shape whose grid is the single wavelength w
At(w) == [start |-> w, end |-> w, interval |-> N(1)]

\* the value at wavelength w of the single LED distribution
LedAt(peak, width, w) == sd_single_led_Ohno2005(peak, width, At(w), NoKwargs).values[1]

\* the sum over the peaks from the i-th on of ratio * single LED value at w
RECURSIVE WeightedSum(_, _, _, _, _)
WeightedSum(i, peaks, widths, ratios, w) ==
    IF i > Len(peaks) THEN Float(N(0))
    ELSE VAdd(VScale(LedAt(peaks[i], widths[i], w), ratios[i]),
              WeightedSum(i + 1, peaks, widths, ratios, w))

\* element i of a repeated cyclically to n elements
Cyclic(a, n) == [i \in 1..n |-> a[((i - 1) % Len(a)) + 1]]

WidthsUsed == Cyclic(gen.args.widths.a, Len(gen.args.peaks))

RatiosUsed ==
    IF gen.args.ratios = NoneArray THEN [i \in 1..Len(gen.args.peaks) |-> N(1)]
    ELSE Cyclic(gen.args.ratios.a, Len(gen.args.peaks))

MultiLedsDone == Done("sd_multi_leds_Ohno2005") \/ Done("sd_multi_leds")

(***************************************************************************)
(* C14: for any shape passed to sd_multi_leds_Ohno2005 or sd_multi_leds    *)
(* the wavelengths of the result are the grid of that shape in ascending   *)
(* order and the value at each of them is the weighted sum of the single   *)
(* LED signals at that wavelength.                                         *)
(***************************************************************************)
C14_ResultOnShapeGrid ==
    MultiLedsDone =>
        /\ IsGrid(gen.result.domain, gen.args.shape)
        /\ gen.result.domain = wavelengths(gen.args.shape)
        /\ \A i \in 1..Len(gen.result.domain) :
              gen.result.values[i] =
                  WeightedSum(1, gen.args.peaks, WidthsUsed, RatiosUsed,
                              gen.result.domain[i])

(***************************************************************************)
(* C15: the value of the result of sd_multi_leds_Ohno2005 at each of its   *)
(* wavelengths is the sum over the peaks of the power ratio times the      *)
(* single LED value at that wavelength, and all values are zero for an     *)
(* empty list of peaks.                                                    *)
(***************************************************************************)
C15_WeightedSuperposition ==
    Done("sd_multi_leds_Ohno2005") =>
        /\ \A i \in 1..Len(gen.result.domain) :
              gen.result.values[i] =
                  WeightedSum(1, gen.args.peaks, WidthsUsed, RatiosUsed,
                              gen.result.domain[i])
        /\ gen.args.peaks = <<>> =>
              \A i \in 1..Len(gen.result.domain) : gen.result.values[i] = Float(N(0))

(***************************************************************************)
(* C16: in sd_multi_leds_Ohno2005 a scalar or an array of half spectral    *)
(* widths or of peak power ratios that is not longer than the peaks is     *)
(* repeated cyclically to the number of peaks, element i being element     *)
(* i mod len of the argument; the call returns, and each peak contributes  *)
(* with the width and the ratio of its position.                           *)
(***************************************************************************)
MultiLedsOhno2005Over == gen.fn = "sd_multi_leds_Ohno2005" /\ gen.status # "called"

NotLonger(arg) == Len(arg.a) >= 1 /\ Len(arg.a) <= Len(gen.args.peaks)

Longer(arg) == Len(arg.a) > Len(gen.args.peaks)

C16_CyclicResize ==
    MultiLedsOhno2005Over =>
        LET n == Len(gen.args.peaks)
            w == gen.args.widths
            r == gen.args.ratios
        IN  /\ NotLonger(w) =>
                /\ gen.status = "returned"
                /\ Len(gen.result.name.args[2]) = n
                /\ \A i \in 1..n :
                      gen.result.name.args[2][i] = w.a[((i - 1) % Len(w.a)) + 1]
            /\ NotLonger(r) =>
                /\ gen.status = "returned"
                /\ Len(gen.result.name.args[3]) = n
                /\ \A i \in 1..n :
                      gen.result.name.args[3][i] = r.a[((i - 1) % Len(r.a)) + 1]
            /\ (NotLonger(w) /\ (r = NoneArray \/ NotLonger(r))
                    /\ gen.args.shape = SPECTRAL_SHAPE_DEFAULT) =>
                  \A i \in 1..Len(gen.result.domain) :
                      gen.result.values[i] =
                          WeightedSum(1, gen.args.peaks, WidthsUsed, RatiosUsed,
                                      gen.result.domain[i])

C16_Witness ==
    /\ Done("sd_multi_leds_Ohno2005")
    /\ gen.args.peaks = DocPeaks
    /\ gen.args.widths = ArrayArg(<<N(20), N(30)>>)
    /\ gen.args.ratios = ScalarArg(N(2))
    /\ gen.args.shape = SPECTRAL_SHAPE_DEFAULT
    /\ gen.result.name.args = <<DocPeaks, <<N(20), N(30), N(20)>>, <<N(2), N(2), N(2)>>>>

(***************************************************************************)
(* C17 as stated: sd_multi_leds_Ohno2005 raises when the half spectral     *)
(* widths or the peak power ratios are longer than the peaks, and when it  *)
(* returns every supplied entry has been used.                             *)
(***************************************************************************)
C17_MismatchRaises ==
    MultiLedsOhno2005Over =>
        /\ (Longer(gen.args.widths) \/ Longer(gen.args.ratios)) => gen.status = "raised"
        /\ gen.status = "returned" =>
              /\ \A j \in 1..Len(gen.args.widths.a) :
                    \E i \in 1..Len(gen.args.peaks) :
                        gen.result.name.args[2][i] = gen.args.widths.a[j]
              /\ \A j \in 1..Len(gen.args.ratios.a) :
                    \E i \in 1..Len(gen.args.peaks) :
                        gen.result.name.args[3][i] = gen.args.ratios.a[j]

(***************************************************************************)
(* C17 amended: sd_multi_leds_Ohno2005 never raises on account of the      *)
(* lengths; widths or ratios longer than the peaks are cut to their first  *)
(* len(peaks) entries and the others are dropped.                          *)
(***************************************************************************)
C17_LongerIsTruncated ==
    MultiLedsOhno2005Over =>
        LET n == Len(gen.args.peaks)
        IN  /\ gen.status = "returned"
            /\ gen.raised = "none"
            /\ Longer(gen.args.widths) =>
                  gen.result.name.args[2] = SubSeq(gen.args.widths.a, 1, n)
            /\ Longer(gen.args.ratios) =>
                  gen.result.name.args[3] = SubSeq(gen.args.ratios.a, 1, n)

C17_Witness ==
    /\ Done("sd_multi_leds_Ohno2005")
    /\ gen.args.peaks = DocPeaks
    /\ gen.args.widths = ArrayArg(<<N(20), N(30), N(20), N(40)>>)
    /\ gen.args.ratios = ArrayArg(<<N(1), N(3), N(2), N(5)>>)
    /\ gen.result.name.args = <<DocPeaks, DocWidths, <<N(1), N(3), N(2)>>>>

(***************************************************************************)
(* C18: the wavelengths of sd_constant(k, shape) are the grid of the shape *)
(* in ascending order and every value is k; sd_zeros and sd_ones return    *)
(* what sd_constant returns for 0 and 1.                                   *)
(***************************************************************************)
C18_ConstantValues ==
    /\ Done("sd_constant") =>
          /\ IsGrid(gen.result.domain, gen.args.shape)
          /\ Len(gen.result.values) = Len(gen.result.domain)
          /\ \A i \in 1..Len(gen.result.domain) :
                gen.result.values[i] = Float(gen.args.k)
    /\ Done("sd_zeros") =>
          /\ gen.result = sd_constant(N(0), gen.args.shape, gen.args.kwargs)
          /\ \A i \in 1..Len(gen.result.domain) : gen.result.values[i] = Float(N(0))
    /\ Done("sd_ones") =>
          /\ gen.result = sd_constant(N(1), gen.args.shape, gen.args.kwargs)
          /\ \A i \in 1..Len(gen.result.domain) : gen.result.values[i] = Float(N(1))

C18_Witness ==
    /\ Done("sd_constant")
    /\ gen.args.k = N(100)
    /\ gen.args.shape = SPECTRAL_SHAPE_DEFAULT
    /\ Len(gen.result.domain) = 421
    /\ gen.result.domain[41] = N(400)
    /\ gen.result.values[41] = Float(N(100))

(***************************************************************************)
(* C19 as stated: whatever keyword settings are passed, the result of the  *)
(* six constant generators has a linear interpolator and a name that       *)
(* embeds k.                                                               *)
(***************************************************************************)
ConstantGenerators ==
    {"sd_constant", "sd_zeros", "sd_ones", "msds_constant", "msds_zeros", "msds_ones"}

ConstantDone == gen.status = "returned" /\ gen.fn \in ConstantGenerators

Level ==
    IF gen.fn \in {"sd_zeros", "msds_zeros"} THEN N(0)
    ELSE IF gen.fn \in {"sd_ones", "msds_ones"} THEN N(1)
    ELSE gen.args.k

EmbedsLevel(name) == name.fmt = "{k} Constant" /\ name.args = <<<<Level>>>>

C19_AlwaysLinearAndNamed ==
    ConstantDone =>
        /\ gen.result.interpolator = "LinearInterpolator"
        /\ EmbedsLevel(gen.result.name)

(***************************************************************************)
(* C19 amended: the result of the six constant generators has a linear     *)
(* interpolator unless the caller passes an interpolator setting, and a    *)
(* name that embeds k unless the caller passes a name; a setting passed by *)
(* the caller is the one the result has.                                   *)
(***************************************************************************)
C19_LinearAndNamedByDefault ==
    ConstantDone =>
        /\ gen.result.interpolator =
              IF "interpolator" \in DOMAIN gen.args.kwargs
              THEN gen.args.kwargs.interpolator ELSE "LinearInterpolator"
        /\ IF "name" \in DOMAIN gen.args.kwargs
           THEN gen.result.name = gen.args.kwargs.name
           ELSE EmbedsLevel(gen.result.name)

C19_Witness ==
    /\ Done("msds_constant")
    /\ gen.args.k = N(100)
    /\ gen.args.kwargs = [interpolator |-> "SpragueInterpolator"]
    /\ gen.result.interpolator = "SpragueInterpolator"
    /\ gen.result.name = Name("{k} Constant", <<<<N(100)>>>>)

(***************************************************************************)
(* C20 as stated: every generator called without an interpolator setting   *)
(* returns a distribution with a linear interpolator.                      *)
(***************************************************************************)
NoInterpolatorSetting ==
    gen.status = "returned" /\ "interpolator" \notin DOMAIN gen.args.kwargs

C20_AlwaysLinear ==
    NoInterpolatorSetting => gen.result.interpolator = "LinearInterpolator"

(***************************************************************************)
(* C20 amended: called without an interpolator setting, the constant       *)
(* generators and the multi LED generators return a distribution with a    *)
(* linear interpolator, while sd_gaussian_normal, sd_gaussian_fwhm and     *)
(* sd_single_led_Ohno2005 return one with the interpolator a distribution  *)
(* gets by default, which is not linear.                                   *)
(***************************************************************************)
C20_LinearOnlyWhereSet ==
    NoInterpolatorSetting =>
        /\ (gen.fn \in ConstantGenerators
               \cup {"sd_multi_leds_Ohno2005", "sd_multi_leds"}) =>
              gen.result.interpolator = "LinearInterpolator"
        /\ (gen.fn \in {"sd_gaussian_normal", "sd_gaussian_fwhm",
                        "sd_single_led_Ohno2005"}) =>
              /\ gen.result.interpolator = DefaultInterpolator(gen.result.domain)
              /\ gen.result.interpolator # "LinearInterpolator"

C20_Witness ==
    /\ Done("sd_gaussian_normal")
    /\ gen.args.kwargs = NoKwargs
    /\ gen.args.shape = SPECTRAL_SHAPE_DEFAULT
    /\ gen.result.interpolator = "SpragueInterpolator"
    /\ gen.result.values[196] = Float(N(1))

(***************************************************************************)
(* C21: sd_gaussian, sd_single_led and sd_multi_leds validate the method   *)
(* name first: a registered name (in any case) returns exactly what the    *)
(* function registered under it returns for the same arguments, any other  *)
(* name raises the invalid method error and no distribution is returned.   *)
(***************************************************************************)
Registered(methods) ==
    \E i \in 1..Len(methods) : lower(methods[i]) = lower(gen.args.method)

Over(fn) == gen.fn = fn /\ gen.status # "called"

Rejected == gen.status = "raised" /\ gen.raised = "ValueError" /\ gen.result = NoCall

Gives(value) == gen.status = "returned" /\ gen.raised = "none" /\ gen.result = value

C21_MethodDispatch ==
    /\ Over("sd_gaussian") =>
          IF lower(gen.args.method) = STR_normal
          THEN Gives(sd_gaussian_normal(gen.args.peak, gen.args.width, gen.args.shape,
                                        gen.args.kwargs))
          ELSE IF lower(gen.args.method) = STR_fwhm
          THEN Gives(sd_gaussian_fwhm(gen.args.peak, gen.args.width, gen.args.shape,
                                      gen.args.kwargs))
          ELSE Rejected
    /\ Over("sd_gaussian") => (Registered(SD_GAUSSIAN_METHODS) <=> ~Rejected)
    /\ Over("sd_single_led") =>
          IF lower(gen.args.method) = STR_ohno2005
          THEN Gives(sd_single_led_Ohno2005(gen.args.peak, gen.args.width,
                                            gen.args.shape, gen.args.kwargs))
          ELSE Rejected
    /\ Over("sd_multi_leds") =>
          IF lower(gen.args.method) = STR_ohno2005
          THEN Gives(sd_multi_leds_Ohno2005(gen.args.peaks, gen.args.widths,
                                            gen.args.ratios, gen.args.shape,
                                            gen.args.kwargs))
          ELSE Rejected

C21_Witness ==
    /\ Over("sd_gaussian")
    /\ gen.args.method = STR_Ohno
    /\ gen.args.shape = SPECTRAL_SHAPE_DEFAULT
    /\ Rejected

(***************************************************************************)
(* C22: at every wavelength of the grid sd_gaussian_fwhm(peak, fwhm) has   *)
(* the value of sd_gaussian_normal(peak, sigma) for the sigma              *)
(* fwhm / (2 sqrt(2 ln 2)); the two distributions differ only in name.     *)
(***************************************************************************)
NormalForm ==
    sd_gaussian_normal(gen.args.peak, fwhm_to_sigma(gen.args.width), gen.args.shape,
                       gen.args.kwargs)

C22_FwhmIsNormalForm ==
    Done("sd_gaussian_fwhm") =>
        /\ gen.result.domain = NormalForm.domain
        /\ gen.result.values = NormalForm.values
        /\ gen.result.interpolator = NormalForm.interpolator
        /\ gen.result.labels = NormalForm.labels
        /\ "name" \notin DOMAIN gen.args.kwargs => gen.result.name # NormalForm.name

\* fwhm = 25 at 25 nm from the peak: 2 ** (-4), that is 0.0625
C22_Witness ==
    /\ Done("sd_gaussian_fwhm")
    /\ gen.args.peak = N(555)
    /\ gen.args.width = N(25)
    /\ gen.args.shape = SPECTRAL_SHAPE_DEFAULT
    /\ gen.result.domain[171] = N(530)
    /\ gen.result.values[171] = exp2_neg(N(4))
    /\ gen.result.values = NormalForm.values

(***************************************************************************)
(* C23: sd_gaussian_normal(mu, sigma, shape) gives each wavelength w of    *)
(* the grid the value exp(-(w - mu)^2 / (2 sigma^2)), which depends on no  *)
(* other wavelength; where w = mu the value is 1 and every other value of  *)
(* the distribution is strictly smaller.                                   *)
(***************************************************************************)
\* v is exp(-a) for a rational a > 0, a real number strictly between 0 and 1
BelowOne(v) ==
    /\ ~v.nan
    /\ \E t \in v.terms : v.terms = {t} /\ t.c = N(1) /\ t.b = N(0) /\ Gt(t.a, N(0))

RECURSIVE CoefficientSum(_)
CoefficientSum(terms) ==
    IF terms = {} THEN N(0)
    ELSE LET t == CHOOSE t \in terms : TRUE
         IN  Add(t.c, CoefficientSum(terms \ {t}))

\* v is a sum of c * exp(-a) with c > 0, a >= 0 and the c adding up to 1: a
\* real number in (0, 1]
InUnitInterval(v) ==
    /\ ~v.nan
    /\ v.terms # {}
    /\ \A t \in v.terms : Gt(t.c, N(0)) /\ Ge(t.a, N(0)) /\ t.b = N(0)
    /\ CoefficientSum(v.terms) = N(1)

MsdsDone == gen.status = "returned" /\ gen.fn \in {"msds_constant", "msds_zeros", "msds_ones"}

C25_ConstantTable ==
    MsdsDone =>
        /\ IsGrid(gen.result.domain, gen.args.shape)
        /\ Len(gen.result.values) = Len(gen.result.domain)
        /\ gen.result.labels = gen.args.labels
        /\ \A i \in 1..Len(gen.result.values) :
              /\ Len(gen.result.values[i]) = Len(gen.result.labels)
              /\ \A j \in 1..Len(gen.result.labels) :
                    gen.result.values[i][j] = Float(Level)
        /\ gen.fn = "msds_zeros" =>
              gen.result = msds_constant(N(0), gen.args.labels, gen.args.shape,
                                         gen.args.kwargs)
        /\ gen.fn = "msds_ones" =>
              gen.result = msds_constant(N(1), gen.args.labels, gen.args.shape,
                                         gen.args.kwargs)

C25_Witness ==
    /\ Done("msds_constant")
    /\ gen.args.k = N(100)
    /\ gen.args.labels = <<"a", "b", "c">>
    /\ gen.args.shape = SpectralShape(400, 700, N(100))
    /\ gen.result.domain = <<N(400), N(500), N(600), N(700)>>
    /\ gen.result.values =
          [i \in 1..4 |-> <<Float(N(100)), Float(N(100)), Float(N(100))>>]

(***************************************************************************)
(* C30: without peak power ratios sd_multi_leds_Ohno2005 weighs every peak *)
(* with 1, so the value at each wavelength of the result is the plain sum  *)
(* of the single LED values there, and with one peak the values are those  *)
(* of sd_single_led_Ohno2005 for that peak, width and shape.               *)
(***************************************************************************)
C30_NoRatiosMeansOnes ==
    (Done("sd_multi_leds_Ohno2005") /\ gen.args.ratios = NoneArray) =>
        LET n == Len(gen.args.peaks)
        IN  /\ gen.result.name.args[3] = [i \in 1..n |-> N(1)]
            /\ \A i \in 1..Len(gen.result.domain) :
                  gen.result.values[i] =
                      WeightedSum(1, gen.args.peaks, WidthsUsed, [j \in 1..n |-> N(1)],
                                  gen.result.domain[i])
            /\ n = 1 =>
                  gen.result.values =
                      sd_single_led_Ohno2005(gen.args.peaks[1], WidthsUsed[1],
                                             gen.args.shape, NoKwargs).values

(***************************************************************************)
(* C26: an evaluation of an input with NaN elements does not raise; a NaN  *)
(* element is neither below, above nor in range, its slot keeps what the   *)
(* fresh result array held, the interpolator is not called with it, and    *)
(* every other element gets the value it gets when evaluated alone.        *)
(***************************************************************************)
HasNaN(xs) == \E i \in 1..Len(xs) : xs[i].tag = "nan"

C26_NaNUntouched ==
    (Evaluated /\ HasNaN(x)) =>
        /\ raised = "none"
        /\ Len(y) = Len(x)
        /\ ~HasNaN(passed)
        /\ \A i \in 1..Len(x) :
            /\ x[i].tag = "nan" =>
                  /\ ~below(self, x[i]) /\ ~above(self, x[i]) /\ ~in_range(self, x[i])
                  /\ y[i] = buffer[i]
            /\ x[i].tag # "nan" => y[i] = _evaluate(self, <<x[i]>>, <<buffer[i]>>)[1]

C26_Witness ==
    /\ Evaluated
    /\ self.interpolator = DocInterpolator
    /\ IsConstant
    /\ self.left = None
    /\ self.right = N(7)
    /\ x = <<N(8), NaN, N(-1)>>
    /\ buffer = <<N(42), N(42), N(42)>>
    /\ y = <<N(7), N(42), N(1)>>
    /\ passed = <<>>

(***************************************************************************)
(* C27: an evaluation is determined by the interpolator, the method and    *)
(* the overrides that were assigned most recently without an error, at     *)
(* construction or by a setter since.                                      *)
(***************************************************************************)
C27_ReadsLatestAssignments ==
    Evaluated => y = _evaluate(assigned, x, buffer)

(***************************************************************************)
(* C28: an evaluation leaves interpolator, method, left and right as they  *)
(* were and the input array as it was passed; an assignment that returns   *)
(* changes at most the property assigned to.                               *)
(***************************************************************************)
Assigns(property) == op'.name = property /\ raised' = "none"

C28_Frame ==
    /\ [][op'.name = "__call__" => (self' = self /\ x' = op'.x /\ alive' = alive)]_vars
    /\ [][Assigns("interpolator") =>
             (self'.method = self.method /\ self'.left = self.left
              /\ self'.right = self.right)]_vars
    /\ [][Assigns("method") =>
             (self'.interpolator = self.interpolator /\ self'.left = self.left
              /\ self'.right = self.right)]_vars
    /\ [][Assigns("left") =>
             (self'.interpolator = self.interpolator /\ self'.method = self.method
              /\ self'.right = self.right)]_vars
    /\ [][Assigns("right") =>
             (self'.interpolator = self.interpolator /\ self'.method = self.method
              /\ self'.left = self.left)]_vars

C28_Witness ==
    /\ alive
    /\ op.name = "right"
    /\ op.right = N(7)
    /\ raised = "none"
    /\ self.right = N(7)
    /\ self.left = N(0)
    /\ self.method = STR_constant
    /\ self.interpolator = BentInterpolator

(***************************************************************************)
(* C29: for an interpolator whose x is strictly increasing with at least   *)
(* two samples, each element that is not NaN is exactly one of below,      *)
(* above and in range, and its slot of the result is written: its value    *)
(* does not depend on what the fresh result array held.                    *)
(***************************************************************************)
StrictlyIncreasing(xs) ==
    Len(xs) >= 2 /\ \A i \in 1..(Len(xs) - 1) : Lt(xs[i], xs[i + 1])

Truth(b) == IF b THEN 1 ELSE 0

C29_Partition ==
    (Evaluated /\ StrictlyIncreasing(xi)) =>
        \A i \in 1..Len(x) :
            x[i].tag # "nan" =>
                /\ Truth(below(self, x[i])) + Truth(above(self, x[i]))
                      + Truth(in_range(self, x[i])) = 1
                /\ below(self, x[i]) <=> Lt(x[i], xi[1])
                /\ above(self, x[i]) <=> Gt(x[i], xi[Last])
                /\ \A e \in Uninitialised : y[i] = _evaluate(self, <<x[i]>>, <<e>>)[1]
                /\ in_range(self, x[i]) <=> (\E j \in 1..Len(passed) : passed[j] = x[i])

C29_Witness ==
    /\ Evaluated
    /\ self.interpolator = BentInterpolator
    /\ IsLinear
    /\ self.left = None
    /\ self.right = None
    /\ x = <<N(-1), N(3), N(4), N(5), N(8)>>
    /\ passed = <<N(3), N(4), N(5)>>
    /\ y = <<N(-15), N(1), N(5), N(2), N(-7)>>

====
